---- MODULE Spec2Model ----
(***************************************************************************)
(* Model of jacksontj/gosqlmetrics, the multi-pool collector of            *)
(* src/metrics.go: a prometheus Collector over a registry of *sql.DB       *)
(* handles, each with its label values.                                    *)
(*                                                                         *)
(* Goroutines call MustRegisterDB (pointer receiver), Collect and Describe *)
(* (value receivers).  A call on a value receiver copies the Collector     *)
(* struct: the copy holds its own sync.RWMutex (a snapshot of the state    *)
(* of c.l at the time of the call) and shares the dbs map, a reference.    *)
(*                                                                         *)
(* The second specification, SpecSingle, runs the single-pool collector of *)
(* src/unnamed/part_000 beside a multi-pool collector that holds the same  *)
(* one pool.                                                               *)
(***************************************************************************)
EXTENDS Integers, Sequences, FiniteSets, TLC

VARIABLES
    o,            \* Collector.o: Options {Prefix, Labels}
    m,            \* Collector.m: the metrics struct, 8 descriptors
    l,            \* Collector.l: the sync.RWMutex of the shared *Collector
    dbs,          \* Collector.dbs: map[*sql.DB][]string
    hashWriting,  \* runtime flag of the dbs map, set while mapassign runs
    poolStats,    \* what each pool's Stats() returns now (the sql.DB's counters)
    fatal,        \* the runtime threw a fatal error: the process is gone
    pc,           \* per goroutine: position in the method it is running
    op,           \* per goroutine: the method it is (or was last) running
    cl,           \* per goroutine: c.l of the receiver copy of Collect/Describe
    db,           \* per goroutine: db (argument of MustRegisterDB, loop variable of Collect)
    labelValues,  \* per goroutine: labelValues (argument, loop variable)
    stats,        \* per goroutine: the local stats of Collect
    iterKeys,     \* per goroutine: keys the map held when the range began
    visited,      \* per goroutine: keys the range has produced
    ch,           \* per goroutine: the samples the call sent on ch
    result,       \* per goroutine: how the last call ended
    calls,        \* the number of calls made on the collector so far
    registered,   \* history: handle -> labelValues of the first MustRegisterDB call that returned
    startKeys,    \* history, per goroutine: the handles registered when the pass was called
    stable,       \* history, per goroutine: no MustRegisterDB call ran at any time of the pass
    snaps,        \* history, per goroutine: handle -> the snapshots Stats() returned in this pass
    observed,     \* history, per goroutine: handle -> the pool's counters when Stats() was called
    prevCh,       \* history, per goroutine: the samples of the previous completed Collect pass
    prevObserved, \* history, per goroutine: observed of the previous completed Collect pass
    single        \* the single-pool collector of src/unnamed/part_000 and its Collect call

vars == <<o, m, l, dbs, hashWriting, poolStats, fatal, pc, op, cl, db, labelValues,
          stats, iterKeys, visited, ch, result, calls, registered, startKeys,
          stable, snaps, observed, prevCh, prevObserved, single>>

\* What no method of the multi-pool collector assigns.
collectorVars == <<o, m, single>>
callVars == <<db, labelValues, stats, iterKeys, visited>>
histVars == <<calls, registered, startKeys, stable, snaps, observed, prevCh, prevObserved>>

-----------------------------------------------------------------------------
(* The inputs the model draws from. *)

\* The calls made on the collector in one run.
MaxCalls == 3

Procs == {"g1", "g2"}
Handles == {"dbA", "dbB"}

\* The goroutines are interchangeable, and so are the handles: the model
\* calls the goroutine that makes the first call g1, and the handle that is
\* first given to MustRegisterDB dbA.
FirstProc == "g1"
FirstHandle == "dbA"
Prefixes == {"db_"}
LabelNames == {<<>>, <<"service">>}
LabelValueLists == {<<>>, <<"orders">>}

None == "none"
NilSlice == <<>>

\* time.Second, in nanoseconds: the unit of time.Duration.
Second == 1000000000

Stat(maxOpen, open, inUse, idle, waitCount, waitDuration, maxIdleClosed, maxLifetimeClosed) ==
    [MaxOpenConnections |-> maxOpen, OpenConnections |-> open, InUse |-> inUse,
     Idle |-> idle, WaitCount |-> waitCount, WaitDuration |-> waitDuration,
     MaxIdleClosed |-> maxIdleClosed, MaxLifetimeClosed |-> maxLifetimeClosed]

\* The counters a pool can show: those of a pool in use, and those of the
\* same pool later, used some more and then closed by its owner.
StatsOpen == Stat(10, 3, 1, 2, 5, 1500000000, 0, 2)
StatsClosed == Stat(10, 0, 0, 0, 7, 2100000000, 1, 6)
StatsSet == {StatsOpen, StatsClosed}

-----------------------------------------------------------------------------
(* prometheus.NewDesc and the descriptor set of NewCollector. *)

\* A NewDesc with its first two arguments taken in the wrong order.
NewDescSwapped(fqName, help, variableLabels) ==
    [fqName |-> help, help |-> fqName, variableLabels |-> variableLabels]

NewDesc(fqName, help, variableLabels) ==
    [fqName |-> fqName, help |-> help, variableLabels |-> variableLabels]

NewMetrics(opts) ==
    [maxConnsDesc |-> NewDesc(opts.Prefix \o "connections_max",
                              "Max number of open connections to the DB", opts.Labels),
     openConns |-> NewDesc(opts.Prefix \o "connections_open",
                           "Current number of established connections bith inuse and idle",
                           opts.Labels),
     inUse |-> NewDesc(opts.Prefix \o "connections_in_use",
                       "The number of connections currently in use", opts.Labels),
     idle |-> NewDesc(opts.Prefix \o "connections_idle",
                      "The number of idle connections", opts.Labels),
     waitCount |-> NewDesc(opts.Prefix \o "connections_wait_count_total",
                           "The total number of connections waited for", opts.Labels),
     waitDuration |-> NewDesc(opts.Prefix \o "connections_wait_duration_seconds_total",
                              "The total time blocked waiting for a new connection in seconds",
                              opts.Labels),
     maxIdleClosed |-> NewDesc(opts.Prefix \o "connections_max_idle_closed_total",
                               "The total number of connections closed due to SetMaxIdleConns",
                               opts.Labels),
     maxLifetimeClosed |-> NewDesc(opts.Prefix \o "connections_max_lifetime_closed_total",
                                   "The total number of connections closed due to SetConnMaxLifetime",
                                   opts.Labels)]

\* The metric name suffixes of NewCollector, in the order of the fields of
\* the metrics struct.
SuffixTable ==
    <<"connections_max", "connections_open", "connections_in_use", "connections_idle",
      "connections_wait_count_total", "connections_wait_duration_seconds_total",
      "connections_max_idle_closed_total", "connections_max_lifetime_closed_total">>

-----------------------------------------------------------------------------
(* sync.RWMutex, as far as the collector uses it: a writer flag (readerCount  *)
(* is negative while a writer holds or waits) and the count of readers.       *)

UnlockedMutex == [writer |-> FALSE, readers |-> 0]

CanRLock(mu) == ~mu.writer
CanLock(mu) == ~mu.writer /\ mu.readers = 0

-----------------------------------------------------------------------------
(* The numeric conversions of the loop body.  A float64 is kept exactly, as  *)
(* whole units and billionths.                                               *)

Float64(n) == [units |-> n, nanos |-> 0]

\* time.Duration.Seconds: the duration in seconds, as a float64.
Seconds(d) == [units |-> d \div Second, nanos |-> d % Second]

\* The sends of the loop body, in source order.
NumSends == Cardinality(DOMAIN NewMetrics([Prefix |-> "", Labels |-> <<>>]))
Sends == 1..NumSends

SendDesc(i) ==
    CASE i = 1 -> m.maxConnsDesc
      [] i = 2 -> m.openConns
      [] i = 3 -> m.inUse
      [] i = 4 -> m.idle
      [] i = 5 -> m.waitCount
      [] i = 6 -> m.waitDuration
      [] i = 7 -> m.maxIdleClosed
      [] i = 8 -> m.maxLifetimeClosed

SendValueType(i) == IF i <= 4 THEN "GaugeValue" ELSE "CounterValue"

SendValue(s, i) ==
    CASE i = 1 -> Float64(s.MaxOpenConnections)
      [] i = 2 -> Float64(s.OpenConnections)
      [] i = 3 -> Float64(s.InUse)
      [] i = 4 -> Float64(s.Idle)
      [] i = 5 -> Float64(s.WaitCount)
      [] i = 6 -> Seconds(s.WaitDuration)
      [] i = 7 -> Float64(s.MaxIdleClosed)
      [] i = 8 -> Float64(s.MaxLifetimeClosed)

\* A MustNewConstMetric that makes a metric of any label values.
ConstMetricNeverPanics(desc, lvs) == FALSE

\* prometheus.MustNewConstMetric panics when the label values do not match
\* the descriptor's label names in number.
ConstMetricPanics(desc, lvs) == Len(lvs) # Len(desc.variableLabels)

\* pool is history: the handle the sample was made for.
MustNewConstMetric(desc, valueType, value, lvs, pool) ==
    [desc |-> desc, valueType |-> valueType, value |-> value, labelValues |-> lvs,
     pool |-> pool]

-----------------------------------------------------------------------------
TypeOK ==
    /\ fatal \in BOOLEAN
    /\ hashWriting \in BOOLEAN
    /\ DOMAIN dbs \subseteq Handles
    /\ \A p \in Procs : pc[p] \in {"idle", "Lock", "check", "mapassign", "store", "Unlock",
                                   "RLock", "next", "send"}

Init ==
    /\ o \in [Prefix : Prefixes, Labels : LabelNames]
    /\ m = NewMetrics(o)
    /\ l = UnlockedMutex
    /\ dbs = <<>>
    /\ hashWriting = FALSE
    /\ poolStats \in [Handles -> {StatsOpen}]
    /\ fatal = FALSE
    /\ pc = [p \in Procs |-> "idle"]
    /\ op = [p \in Procs |-> None]
    /\ cl = [p \in Procs |-> UnlockedMutex]
    /\ db = [p \in Procs |-> None]
    /\ labelValues = [p \in Procs |-> NilSlice]
    /\ stats = [p \in Procs |-> None]
    /\ iterKeys = [p \in Procs |-> {}]
    /\ visited = [p \in Procs |-> {}]
    /\ ch = [p \in Procs |-> <<>>]
    /\ result = [p \in Procs |-> None]
    /\ calls = 0
    /\ registered = <<>>
    /\ startKeys = [p \in Procs |-> {}]
    /\ stable = [p \in Procs |-> TRUE]
    /\ snaps = [p \in Procs |-> <<>>]
    /\ observed = [p \in Procs |-> <<>>]
    /\ prevCh = [p \in Procs |-> <<>>]
    /\ prevObserved = [p \in Procs |-> <<>>]
    /\ single = None

-----------------------------------------------------------------------------
(* MustRegisterDB(db, labelValues), pointer receiver: it locks the shared c.l. *)

Call_MustRegisterDB(p, d, lvs) ==
    /\ ~fatal
    /\ pc[p] = "idle"
    /\ calls < MaxCalls
    /\ calls = 0 => p = FirstProc
    /\ d # FirstHandle =>
          \/ FirstHandle \in DOMAIN dbs
          \/ \E q \in Procs : op[q] = "MustRegisterDB" /\ pc[q] # "idle" /\ db[q] = FirstHandle
    /\ calls' = calls + 1
    /\ pc' = [pc EXCEPT ![p] = "Lock"]
    /\ op' = [op EXCEPT ![p] = "MustRegisterDB"]
    /\ db' = [db EXCEPT ![p] = d]
    /\ labelValues' = [labelValues EXCEPT ![p] = lvs]
    /\ result' = [result EXCEPT ![p] = None]
    /\ stable' = [q \in Procs |-> stable[q] /\ pc[q] = "idle"]
    /\ UNCHANGED <<collectorVars, l, dbs, hashWriting, poolStats, fatal, cl, stats,
                   iterKeys, visited, ch, registered, startKeys, snaps, observed, prevCh,
                   prevObserved>>

\* c.l.Lock()
Lock(p) ==
    /\ ~fatal
    /\ pc[p] = "Lock"
    /\ CanLock(l)
    /\ l' = [l EXCEPT !.writer = TRUE]
    /\ pc' = [pc EXCEPT ![p] = "check"]
    /\ UNCHANGED <<collectorVars, dbs, hashWriting, poolStats, fatal, op, cl, callVars,
                   ch, result, histVars>>

\* The duplicate check left out: every handle passes as new.
MapHasKeyNever(d) == FALSE

\* _, ok := c.dbs[db]
MapHasKey(d) == d \in DOMAIN dbs

\* if ok { panic("duplicate register") }, and the deferred c.l.Unlock() of the panic;
\* otherwise c.dbs[db] = labelValues begins: mapassign sets the map's hashWriting flag.
Check(p) ==
    /\ ~fatal
    /\ pc[p] = "check"
    /\ IF MapHasKey(db[p])
       THEN /\ l' = [l EXCEPT !.writer = FALSE]
            /\ result' = [result EXCEPT ![p] = "panic: duplicate register"]
            /\ pc' = [pc EXCEPT ![p] = "idle"]
            /\ UNCHANGED hashWriting
       ELSE /\ hashWriting' = TRUE
            /\ pc' = [pc EXCEPT ![p] = "mapassign"]
            /\ UNCHANGED <<l, result>>
    /\ UNCHANGED <<collectorVars, dbs, poolStats, fatal, op, cl, callVars, ch, histVars>>

\* mapassign: the key is in the map, its element still the zero value (a nil
\* slice); the flag is cleared and the element's address returned.
MapAssign(p) ==
    /\ ~fatal
    /\ pc[p] = "mapassign"
    /\ dbs' = (db[p] :> NilSlice) @@ dbs
    /\ hashWriting' = FALSE
    /\ pc' = [pc EXCEPT ![p] = "store"]
    /\ UNCHANGED <<collectorVars, l, poolStats, fatal, op, cl, callVars, ch, result,
                   histVars>>

\* the store of labelValues into the element
Store(p) ==
    /\ ~fatal
    /\ pc[p] = "store"
    /\ dbs' = [dbs EXCEPT ![db[p]] = labelValues[p]]
    /\ pc' = [pc EXCEPT ![p] = "Unlock"]
    /\ UNCHANGED <<collectorVars, l, hashWriting, poolStats, fatal, op, cl, callVars, ch,
                   result, histVars>>

\* the deferred c.l.Unlock() and the return
Unlock(p) ==
    /\ ~fatal
    /\ pc[p] = "Unlock"
    /\ l' = [l EXCEPT !.writer = FALSE]
    /\ result' = [result EXCEPT ![p] = "ok"]
    /\ registered' = registered @@ (db[p] :> labelValues[p])
    /\ pc' = [pc EXCEPT ![p] = "idle"]
    /\ UNCHANGED <<collectorVars, dbs, hashWriting, poolStats, fatal, op, cl, callVars,
                   ch, calls, startKeys, stable, snaps, observed, prevCh, prevObserved>>

-----------------------------------------------------------------------------
(* Collect(ch) and Describe(ch), value receivers.  Describe is               *)
(* prometheus.DescribeByCollect(c, ch): it runs Collect and sends on ch the  *)
(* descriptor of every metric Collect sends.                                 *)

\* The call copies the receiver: c.l of the copy is the state of the shared
\* lock now, and c.dbs of the copy is the shared map.
CallPass(p, method) ==
    /\ ~fatal
    /\ pc[p] = "idle"
    /\ calls < MaxCalls
    /\ calls = 0 => p = FirstProc
    /\ calls' = calls + 1
    /\ pc' = [pc EXCEPT ![p] = "RLock"]
    /\ op' = [op EXCEPT ![p] = method]
    /\ cl' = [cl EXCEPT ![p] = l]
    /\ db' = [db EXCEPT ![p] = None]
    /\ labelValues' = [labelValues EXCEPT ![p] = NilSlice]
    /\ stats' = [stats EXCEPT ![p] = None]
    /\ iterKeys' = [iterKeys EXCEPT ![p] = {}]
    /\ visited' = [visited EXCEPT ![p] = {}]
    /\ ch' = [ch EXCEPT ![p] = <<>>]
    /\ result' = [result EXCEPT ![p] = None]
    /\ startKeys' = [startKeys EXCEPT ![p] = DOMAIN registered]
    /\ stable' = [stable EXCEPT ![p] = \A q \in Procs : op[q] = "MustRegisterDB" => pc[q] = "idle"]
    /\ snaps' = [snaps EXCEPT ![p] = <<>>]
    /\ observed' = [observed EXCEPT ![p] = <<>>]
    /\ IF op[p] = "Collect" /\ result[p] = "ok"
       THEN /\ prevCh' = [prevCh EXCEPT ![p] = ch[p]]
            /\ prevObserved' = [prevObserved EXCEPT ![p] = observed[p]]
       ELSE UNCHANGED <<prevCh, prevObserved>>
    /\ UNCHANGED <<collectorVars, l, dbs, hashWriting, poolStats, fatal, registered>>

Call_Collect(p) == CallPass(p, "Collect")

Call_Describe(p) == CallPass(p, "Describe")

\* c.l.RLock(), on the copy: it waits while the copy says a writer holds the
\* lock; then for db, labelValues := range c.dbs begins.  The runtime throws
\* "concurrent map iteration and map write" when the iterator finds hashWriting set.
RLock(p) ==
    /\ ~fatal
    /\ pc[p] = "RLock"
    /\ CanRLock(cl[p])
    /\ cl' = [cl EXCEPT ![p].readers = @ + 1]
    /\ IF hashWriting
       THEN /\ fatal' = TRUE
            /\ UNCHANGED <<pc, iterKeys, visited>>
       ELSE /\ iterKeys' = [iterKeys EXCEPT ![p] = DOMAIN dbs]
            /\ visited' = [visited EXCEPT ![p] = {}]
            /\ pc' = [pc EXCEPT ![p] = "next"]
            /\ UNCHANGED fatal
    /\ UNCHANGED <<collectorVars, l, dbs, hashWriting, poolStats, op, db, labelValues,
                   stats, ch, result, histVars>>

\* A cache kept across passes: what the last pass before this one read.
DBStatsCached(d) ==
    IF \E q \in Procs : d \in DOMAIN prevObserved[q]
    THEN prevObserved[CHOOSE q \in Procs : d \in DOMAIN prevObserved[q]][d]
    ELSE poolStats[d]

\* db.Stats(): the pool's counters now
DBStats(d) == poolStats[d]

\* The next iteration finds hashWriting set: the runtime throws.
NextThrow(p) ==
    /\ ~fatal
    /\ pc[p] = "next"
    /\ hashWriting
    /\ fatal' = TRUE
    /\ UNCHANGED <<collectorVars, l, dbs, hashWriting, poolStats, pc, op, cl, callVars, ch,
                   result, histVars>>

\* The next iteration and stats := db.Stats(): any key of the map not
\* produced yet, in any order, with the element the map holds for it now; a
\* key inserted after the range began may be produced or skipped.
NextEntry(p, d) ==
    /\ ~fatal
    /\ pc[p] = "next"
    /\ ~hashWriting
    /\ d \in DOMAIN dbs \ visited[p]
    /\ db' = [db EXCEPT ![p] = d]
    /\ labelValues' = [labelValues EXCEPT ![p] = dbs[d]]
    /\ visited' = [visited EXCEPT ![p] = @ \cup {d}]
    /\ stats' = [stats EXCEPT ![p] = DBStats(d)]
    /\ snaps' = [snaps EXCEPT ![p] =
                    (d :> (IF d \in DOMAIN @ THEN @[d] ELSE <<>>) \o <<DBStats(d)>>) @@ @]
    /\ observed' = [observed EXCEPT ![p] = (d :> poolStats[d]) @@ @]
    /\ pc' = [pc EXCEPT ![p] = "send"]
    /\ UNCHANGED <<collectorVars, l, dbs, hashWriting, poolStats, fatal, op, cl, iterKeys,
                   ch, result, calls, registered, startKeys, stable, prevCh, prevObserved>>

\* The range is over: the deferred c.l.RUnlock(), on the copy, and the return.
NextDone(p) ==
    /\ ~fatal
    /\ pc[p] = "next"
    /\ ~hashWriting
    /\ iterKeys[p] \subseteq visited[p]
    /\ cl' = [cl EXCEPT ![p] = UnlockedMutex]
    /\ result' = [result EXCEPT ![p] = "ok"]
    /\ pc' = [pc EXCEPT ![p] = "idle"]
    /\ db' = [db EXCEPT ![p] = None]
    /\ labelValues' = [labelValues EXCEPT ![p] = NilSlice]
    /\ stats' = [stats EXCEPT ![p] = None]
    /\ iterKeys' = [iterKeys EXCEPT ![p] = {}]
    /\ visited' = [visited EXCEPT ![p] = {}]
    /\ UNCHANGED <<collectorVars, l, dbs, hashWriting, poolStats, fatal, op, ch, histVars>>

\* db.Stats() called again for every send, in place of the local stats.
SendStatsLive(p) == poolStats[db[p]]

\* The statistics the sends of the loop body read: the local stats.
SendStats(p) == stats[p]

\* A delta computation: the wait count is sent as its growth since the
\* goroutine's previous pass.
SendMetricDelta(p, i) ==
    MustNewConstMetric(SendDesc(i), SendValueType(i),
                       IF i = 5 /\ db[p] \in DOMAIN prevObserved[p]
                       THEN Float64(SendStats(p).WaitCount - prevObserved[p][db[p]].WaitCount)
                       ELSE SendValue(SendStats(p), i),
                       labelValues[p], db[p])

\* The i-th metric of the loop body.
SendMetric(p, i) ==
    MustNewConstMetric(SendDesc(i), SendValueType(i), SendValue(SendStats(p), i),
                       labelValues[p], db[p])

\* What the i-th send puts on ch: Describe forwards the metric's descriptor.
Sent(p, i) == IF op[p] = "Describe" THEN SendMetric(p, i).desc ELSE SendMetric(p, i)

\* The sends of the loop body from the i-th on, up to the first call of
\* MustNewConstMetric that panics.
RECURSIVE SendsFrom(_, _)
SendsFrom(p, i) ==
    IF i > NumSends \/ ConstMetricPanics(SendDesc(i), labelValues[p])
    THEN <<>>
    ELSE <<Sent(p, i)>> \o SendsFrom(p, i + 1)

\* The loop body after db.Stats(): the 8 sends ch <- prometheus.MustNewConstMetric(...),
\* up to a panic of MustNewConstMetric, which runs the deferred c.l.RUnlock().
Send(p) ==
    /\ ~fatal
    /\ pc[p] = "send"
    /\ ch' = [ch EXCEPT ![p] = @ \o SendsFrom(p, 1)]
    /\ IF Len(SendsFrom(p, 1)) < NumSends
       THEN /\ cl' = [cl EXCEPT ![p] = UnlockedMutex]
            /\ result' = [result EXCEPT ![p] = "panic: inconsistent label cardinality"]
            /\ pc' = [pc EXCEPT ![p] = "idle"]
            /\ db' = [db EXCEPT ![p] = None]
            /\ labelValues' = [labelValues EXCEPT ![p] = NilSlice]
            /\ stats' = [stats EXCEPT ![p] = None]
            /\ iterKeys' = [iterKeys EXCEPT ![p] = {}]
            /\ visited' = [visited EXCEPT ![p] = {}]
       ELSE /\ pc' = [pc EXCEPT ![p] = "next"]
            /\ UNCHANGED <<cl, result, callVars>>
    /\ UNCHANGED <<collectorVars, l, dbs, hashWriting, poolStats, fatal, op, histVars>>

-----------------------------------------------------------------------------
(* The pools, owned by the callers: a pool's counters move on and its owner  *)
(* closes it; the cumulative counters never decrease.  The collector         *)
(* sees a pool only in db.Stats(): a change at any other time is the same,   *)
(* to every pass, as that change made just before a pass calls db.Stats(),   *)
(* so the model lets a pool move while a pass may reach it or is at it.      *)

NextStats(s) == IF s = StatsOpen THEN {StatsClosed} ELSE {}

PoolActivity(d) ==
    /\ ~fatal
    /\ \E p \in Procs : \/ (pc[p] = "next" /\ d \in DOMAIN dbs \ visited[p])
                       \/ (pc[p] = "send" /\ db[p] = d)
    /\ \E s \in NextStats(poolStats[d]) : poolStats' = [poolStats EXCEPT ![d] = s]
    /\ UNCHANGED <<collectorVars, l, dbs, hashWriting, fatal, pc, op, cl, callVars, ch,
                   result, histVars>>

-----------------------------------------------------------------------------
Next ==
    \/ \E p \in Procs, d \in Handles, lvs \in LabelValueLists : Call_MustRegisterDB(p, d, lvs)
    \/ \E p \in Procs : Lock(p)
    \/ \E p \in Procs : Check(p)
    \/ \E p \in Procs : MapAssign(p)
    \/ \E p \in Procs : Store(p)
    \/ \E p \in Procs : Unlock(p)
    \/ \E p \in Procs : Call_Collect(p)
    \/ \E p \in Procs : Call_Describe(p)
    \/ \E p \in Procs : RLock(p)
    \/ \E p \in Procs : NextThrow(p)
    \/ \E p \in Procs, d \in Handles : NextEntry(p, d)
    \/ \E p \in Procs : NextDone(p)
    \/ \E p \in Procs : Send(p)
    \/ \E d \in Handles : PoolActivity(d)

Spec == Init /\ [][Next]_vars

-----------------------------------------------------------------------------
(* The single-pool collector of src/unnamed/part_000: Options has a third    *)
(* field LabelValues, NewCollector(o, db) binds the one pool, and there is   *)
(* no lock, no map and no MustRegisterDB.  It is run beside a multi-pool     *)
(* collector built from the same Prefix and Labels, on which goroutine g1    *)
(* registers the same pool with the same label values and runs Collect.      *)

\* NewCollector(o, db); with it the Collect call in progress: pc, the local
\* stats, what was sent on ch, how the call ended, and (history) the snapshot
\* c.db.Stats() returned.
NewSingleCollector(opts, d) ==
    [o |-> opts, db |-> d, m |-> NewMetrics(opts),
     pc |-> "idle", stats |-> None, ch |-> <<>>, result |-> None, snap |-> None]

\* The 8 sends of Collect, in source order: descriptor, value type, value.
SingleSends(s) ==
    << [desc |-> single.m.maxConnsDesc, valueType |-> "GaugeValue",
        value |-> Float64(s.MaxOpenConnections)],
       [desc |-> single.m.openConns, valueType |-> "GaugeValue",
        value |-> Float64(s.OpenConnections)],
       [desc |-> single.m.inUse, valueType |-> "GaugeValue",
        value |-> Float64(s.InUse)],
       [desc |-> single.m.idle, valueType |-> "GaugeValue",
        value |-> Float64(s.Idle)],
       [desc |-> single.m.waitCount, valueType |-> "CounterValue",
        value |-> Float64(s.WaitCount)],
       [desc |-> single.m.waitDuration, valueType |-> "CounterValue",
        value |-> Seconds(s.WaitDuration)],
       [desc |-> single.m.maxIdleClosed, valueType |-> "CounterValue",
        value |-> Float64(s.MaxIdleClosed)],
       [desc |-> single.m.maxLifetimeClosed, valueType |-> "CounterValue",
        value |-> Float64(s.MaxLifetimeClosed)] >>

\* The label names passed where the label values belong.
SingleLabelNamesAsValues == single.o.Labels

\* c.o.LabelValues...
SingleLabelValues == single.o.LabelValues

\* The i-th metric of Collect.
SingleSendMetric(i) ==
    MustNewConstMetric(SingleSends(single.stats)[i].desc,
                       SingleSends(single.stats)[i].valueType,
                       SingleSends(single.stats)[i].value,
                       SingleLabelValues, single.db)

\* The sends of Collect from the i-th on, up to the first call of
\* MustNewConstMetric that panics.
RECURSIVE SingleSendsFrom(_)
SingleSendsFrom(i) ==
    IF i > Len(SingleSends(single.stats))
       \/ ConstMetricPanics(SingleSends(single.stats)[i].desc, SingleLabelValues)
    THEN <<>>
    ELSE <<SingleSendMetric(i)>> \o SingleSendsFrom(i + 1)

\* What the multi-pool collector's calls leave alone: all but the pools and
\* the single-pool collector.
multiVars == <<o, m, l, dbs, hashWriting, fatal, pc, op, cl, callVars, ch, result,
               histVars>>

InitSingle ==
    /\ \E opts \in [Prefix : Prefixes, Labels : LabelNames, LabelValues : LabelValueLists] :
          /\ single = NewSingleCollector(opts, FirstHandle)
          /\ o = [Prefix |-> opts.Prefix, Labels |-> opts.Labels]
    /\ m = NewMetrics(o)
    /\ l = UnlockedMutex
    /\ dbs = <<>>
    /\ hashWriting = FALSE
    /\ poolStats \in [Handles -> {StatsOpen}]
    /\ fatal = FALSE
    /\ pc = [p \in Procs |-> "idle"]
    /\ op = [p \in Procs |-> None]
    /\ cl = [p \in Procs |-> UnlockedMutex]
    /\ db = [p \in Procs |-> None]
    /\ labelValues = [p \in Procs |-> NilSlice]
    /\ stats = [p \in Procs |-> None]
    /\ iterKeys = [p \in Procs |-> {}]
    /\ visited = [p \in Procs |-> {}]
    /\ ch = [p \in Procs |-> <<>>]
    /\ result = [p \in Procs |-> None]
    /\ calls = 0
    /\ registered = <<>>
    /\ startKeys = [p \in Procs |-> {}]
    /\ stable = [p \in Procs |-> TRUE]
    /\ snaps = [p \in Procs |-> <<>>]
    /\ observed = [p \in Procs |-> <<>>]
    /\ prevCh = [p \in Procs |-> <<>>]
    /\ prevObserved = [p \in Procs |-> <<>>]

\* A call of Collect(ch) on the single-pool collector.
SingleCall_Collect ==
    /\ single.pc = "idle"
    /\ single' = [single EXCEPT !.pc = "Stats", !.stats = None, !.ch = <<>>,
                                !.result = None, !.snap = None]
    /\ UNCHANGED <<multiVars, poolStats>>

\* stats := c.db.Stats()
SingleStats ==
    /\ single.pc = "Stats"
    /\ single' = [single EXCEPT !.pc = "send", !.stats = DBStats(single.db),
                                !.snap = DBStats(single.db)]
    /\ UNCHANGED <<multiVars, poolStats>>

\* The 8 sends ch <- prometheus.MustNewConstMetric(...), up to a panic of
\* MustNewConstMetric, and the return.
SingleSend ==
    /\ single.pc = "send"
    /\ single' = [single EXCEPT
                     !.pc = "idle",
                     !.stats = None,
                     !.ch = SingleSendsFrom(1),
                     !.result = IF Len(SingleSendsFrom(1)) < Len(SingleSends(single.stats))
                                THEN "panic: inconsistent label cardinality"
                                ELSE "ok"]
    /\ UNCHANGED <<multiVars, poolStats>>

\* The bound pool moves on before the single-pool collector calls Stats.
SinglePoolActivity ==
    /\ single.pc = "Stats"
    /\ \E s \in NextStats(poolStats[single.db]) :
          poolStats' = [poolStats EXCEPT ![single.db] = s]
    /\ UNCHANGED <<multiVars, single>>

NextSingle ==
    \/ SingleCall_Collect
    \/ SingleStats
    \/ SingleSend
    \/ SinglePoolActivity
    \/ Call_MustRegisterDB(FirstProc, single.db, single.o.LabelValues)
    \/ Lock(FirstProc)
    \/ Check(FirstProc)
    \/ MapAssign(FirstProc)
    \/ Store(FirstProc)
    \/ Unlock(FirstProc)
    \/ Call_Collect(FirstProc)
    \/ RLock(FirstProc)
    \/ \E d \in Handles : NextEntry(FirstProc, d)
    \/ NextDone(FirstProc)
    \/ Send(FirstProc)
    \/ PoolActivity(single.db)

SpecSingle == InitSingle /\ [][NextSingle]_vars

-----------------------------------------------------------------------------
(* Vocabulary of the properties. *)

Passes == {"Collect", "Describe"}

\* p is inside the read section of a pass: between RLock and RUnlock.
InReadSection(p) == pc[p] \in {"next", "send"}

\* p is inside the write section of MustRegisterDB: between Lock and Unlock.
InWriteSection(p) == pc[p] \in {"check", "mapassign", "store", "Unlock"}

\* The label values given to the registration of d: of the call that
\* returned, or of the call that is inserting d now.
GivenLabelValues(d) ==
    IF d \in DOMAIN registered
    THEN registered[d]
    ELSE LET w == CHOOSE p \in Procs : InWriteSection(p) /\ db[p] = d
         IN labelValues[w]

\* The samples a sequence of samples holds for pool d, in the order sent.
SamplesOf(samples, d) == SelectSeq(samples, LAMBDA s : s.pool = d)

\* The pools a sequence of samples holds samples for.
PoolsOf(samples) == {samples[i].pool : i \in DOMAIN samples}

\* The sends of the counter kind.
CounterSends == {i \in Sends : SendValueType(i) = "CounterValue"}

\* a >= b, of two float64 values.
FloatGeq(a, b) == a.units > b.units \/ (a.units = b.units /\ a.nanos >= b.nanos)

\* The cumulative counters of snapshot s are not below those of snapshot t.
CountersGeq(s, t) ==
    /\ s.WaitCount >= t.WaitCount
    /\ s.WaitDuration >= t.WaitDuration
    /\ s.MaxIdleClosed >= t.MaxIdleClosed
    /\ s.MaxLifetimeClosed >= t.MaxLifetimeClosed

\* The samples of pool d are the 8 of the loop body, with the values of snapshot snap.
EightFrom(samples, d, snap) ==
    /\ Len(SamplesOf(samples, d)) = NumSends
    /\ \A i \in Sends :
          /\ SamplesOf(samples, d)[i].desc = SendDesc(i)
          /\ SamplesOf(samples, d)[i].valueType = SendValueType(i)
          /\ SamplesOf(samples, d)[i].value = SendValue(snap, i)

-----------------------------------------------------------------------------
\* C1: a MustRegisterDB call for a handle that is already registered panics
\* ("duplicate register"), and the registry is left as it was: the handle still
\* maps to the label values of its first registration, every other entry is
\* unchanged.
C1_DuplicateRegistrationPanics ==
    [][\A p \in Procs :
          (pc[p] = "check" /\ pc'[p] # "check" /\ db[p] \in DOMAIN registered)
          => /\ result'[p] = "panic: duplicate register"
             /\ pc'[p] = "idle"
             /\ dbs' = dbs
             /\ \A d \in DOMAIN registered' : dbs'[d] = registered'[d]]_vars

\* A second registration of a handle, with other label values, has panicked,
\* and the registry holds the first registration.
C1_Witness ==
    \E p \in Procs :
        /\ op[p] = "MustRegisterDB"
        /\ result[p] = "panic: duplicate register"
        /\ db[p] \in DOMAIN registered
        /\ labelValues[p] # registered[db[p]]
        /\ dbs[db[p]] = registered[db[p]]
        /\ Cardinality(DOMAIN dbs) > 1

\* C2: no pass is inside its read section while a MustRegisterDB call is
\* inside its write section.
C2_ReadersExcludeWriters ==
    \A p, q \in Procs : ~(InReadSection(p) /\ InWriteSection(q))

\* C3: a pass never sees a partly inserted registration: the label values it
\* reads for a pool are the list given to the pool's registration, and the
\* samples it sends for the pool carry that list.
C3_NoPartialRegistrationSeen ==
    \A p \in Procs :
        /\ (pc[p] = "send" => labelValues[p] = GivenLabelValues(db[p]))
        /\ op[p] = "Collect" =>
              \A i \in DOMAIN ch[p] :
                  /\ ch[p][i].labelValues = GivenLabelValues(ch[p][i].pool)
                  /\ Len(SamplesOf(ch[p], ch[p][i].pool)) = NumSends

C5_EightSamplesPerPool ==
    \A p \in Procs :
        (op[p] = "Collect" /\ stable[p]) =>
            /\ \A d \in DOMAIN snaps[p] :
                  \/ pc[p] = "send" /\ db[p] = d
                  \/ EightFrom(ch[p], d, snaps[p][d][1])
            /\ result[p] # None =>
                  /\ startKeys[p] = DOMAIN snaps[p]
                  /\ Len(ch[p]) = NumSends * Cardinality(startKeys[p])

\* C6: every sample of a Collect pass carries the label values its pool was
\* registered with.
C6_SamplesCarryRegisteredLabelValues ==
    \A p \in Procs :
        op[p] = "Collect" =>
            \A i \in DOMAIN ch[p] : ch[p][i].labelValues = GivenLabelValues(ch[p][i].pool)

\* C7: a Collect pass over a registry built by MustRegisterDB calls that
\* returned (no such call runs during the pass) never aborts, and sends the 8
\* samples of every registered pool.
C7_CollectAlwaysCompletes ==
    \A p \in Procs :
        (op[p] = "Collect" /\ stable[p] /\ result[p] # None) =>
            /\ result[p] = "ok"
            /\ \A d \in startKeys[p] : Len(SamplesOf(ch[p], d)) = NumSends

\* C8: Describe reports the 8 descriptors of the descriptor set, all of them
\* and no other, whatever the registry holds.  Stated for the Describe calls
\* during which no MustRegisterDB call ran.
C8_DescribeReportsTheDescriptorSet ==
    \A p \in Procs :
        (op[p] = "Describe" /\ stable[p] /\ result[p] # None) =>
            /\ result[p] = "ok"
            /\ {ch[p][i] : i \in DOMAIN ch[p]} = {SendDesc(i) : i \in Sends}

\* C9: no call is left waiting for a lock that is never released.  A pass
\* waits in RLock on the lock of its receiver copy; no other goroutine ever
\* touches that copy, so a writer flag in it is never cleared.
C9_NoCallBlockedForever ==
    \A p \in Procs : pc[p] = "RLock" => CanRLock(cl[p])

\* C10: the samples of a Collect pass have the values the pool held when that
\* pass called db.Stats(): of two consecutive passes the first shows the
\* counters as they were at the first pass, the second as they are at the second.
C10_NoCachingAcrossPasses ==
    \A p \in Procs :
        /\ op[p] = "Collect" =>
              \A d \in PoolsOf(ch[p]) : EightFrom(ch[p], d, observed[p][d])
        /\ \A d \in PoolsOf(prevCh[p]) : EightFrom(prevCh[p], d, prevObserved[p][d])

\* Two consecutive Collect passes of a goroutine have both sent the samples of
\* a pool whose wait count grew between them.
C10_Witness ==
    \E p \in Procs, d \in Handles :
        /\ op[p] = "Collect"
        /\ result[p] = "ok"
        /\ d \in PoolsOf(ch[p]) \cap PoolsOf(prevCh[p])
        /\ prevObserved[p][d].WaitCount < observed[p][d].WaitCount
        /\ SamplesOf(prevCh[p], d)[5].value = Float64(prevObserved[p][d].WaitCount)
        /\ SamplesOf(ch[p], d)[5].value = Float64(observed[p][d].WaitCount)

\* C11: the pools' cumulative counters never decrease, and of two Collect
\* passes of which the first returned before the second was called, the second
\* sends for each of the 4 counter-kind metrics of a pool a value not below the
\* value the first sent, and the value is the pool's own counter as db.Stats()
\* returned it (no delta).  The goroutine that makes a call is of no account
\* to the collector: the two passes are consecutive passes of one goroutine.
C11_CountersNonDecreasing ==
    \A p \in Procs :
        op[p] = "Collect" =>
            \A d \in PoolsOf(ch[p]) :
                /\ CountersGeq(poolStats[d], observed[p][d])
                /\ \A i \in CounterSends :
                      /\ SamplesOf(ch[p], d)[i].valueType = "CounterValue"
                      /\ SamplesOf(ch[p], d)[i].value = SendValue(observed[p][d], i)
                      /\ d \in PoolsOf(prevCh[p]) =>
                            /\ CountersGeq(observed[p][d], prevObserved[p][d])
                            /\ FloatGeq(SamplesOf(ch[p], d)[i].value,
                                        SamplesOf(prevCh[p], d)[i].value)

\* Two consecutive Collect passes of a goroutine have sent the wait duration
\* of a pool, 1.5 s in the first and 2.1 s in the second.
C11_Witness ==
    \E p \in Procs, d \in Handles :
        /\ op[p] = "Collect"
        /\ result[p] = "ok"
        /\ d \in PoolsOf(ch[p]) \cap PoolsOf(prevCh[p])
        /\ SamplesOf(prevCh[p], d)[6].value = [units |-> 1, nanos |-> 500000000]
        /\ SamplesOf(ch[p], d)[6].value = [units |-> 2, nanos |-> 100000000]

\* C12: every sample a Collect pass has sent carries as many label values as
\* its descriptor has label names, the Labels of the collector's Options,
\* whatever label values MustRegisterDB accepted for the pools.
C12_LabelCountMatchesDescriptor ==
    \A p \in Procs :
        op[p] = "Collect" =>
            \A i \in DOMAIN ch[p] :
                /\ ch[p][i].desc.variableLabels = o.Labels
                /\ Len(ch[p][i].labelValues) = Len(ch[p][i].desc.variableLabels)

\* MustRegisterDB accepted one pool with a label value for the one label
\* name and another pool with none; a Collect pass has sent the samples of the
\* first, each with its one label value.
C12_Witness ==
    \E p \in Procs, d, e \in Handles :
        /\ op[p] = "Collect"
        /\ Len(o.Labels) = 1
        /\ {d, e} \subseteq DOMAIN registered
        /\ Len(registered[d]) = 1
        /\ Len(registered[e]) = 0
        /\ Len(SamplesOf(ch[p], d)) = NumSends
        /\ \A i \in Sends : Len(SamplesOf(ch[p], d)[i].labelValues) = 1

\* C13: a Collect pass that called db.Stats() on a pool its owner has closed
\* returns, with 8 samples for the closed pool that carry the statistics the
\* handle returned, and with the 8 samples of every other registered pool.
\* Stated for the passes during which no MustRegisterDB call ran.
C13_ClosedPoolIsNotAnError ==
    \A p \in Procs :
        (/\ op[p] = "Collect"
         /\ stable[p]
         /\ result[p] # None
         /\ \E d \in DOMAIN observed[p] : observed[p][d] = StatsClosed) =>
            /\ result[p] = "ok"
            /\ \A d \in startKeys[p] :
                  d \in DOMAIN observed[p] /\ EightFrom(ch[p], d, observed[p][d])

\* C14: the descriptor set holds exactly 8 descriptors, the i-th sent named
\* Prefix + the i-th suffix of the table and with the label names of Options,
\* and no step of MustRegisterDB, Describe or Collect changes the set or the
\* Options it was built from.
C14_DescriptorSetFixed ==
    /\ [](/\ Cardinality({m[f] : f \in DOMAIN m}) = 8
          /\ Cardinality(DOMAIN m) = 8
          /\ {m[f] : f \in DOMAIN m} = {SendDesc(i) : i \in Sends}
          /\ \A i \in Sends :
                /\ SendDesc(i).fqName = o.Prefix \o SuffixTable[i]
                /\ SendDesc(i).variableLabels = o.Labels)
    /\ [][m' = m /\ o' = o]_vars

\* A MustRegisterDB call, a Collect pass and a Describe call have returned, the
\* passes with what they send for the registered pool, and the descriptor of
\* the wait count is named as at construction.
C14_Witness ==
    \E p, q \in Procs :
        /\ registered # <<>>
        /\ op[p] = "Collect" /\ result[p] = "ok" /\ Len(ch[p]) = NumSends
        /\ op[q] = "Describe" /\ result[q] = "ok" /\ Len(ch[q]) = NumSends
        /\ m.waitCount.fqName = "db_connections_wait_count_total"
        /\ m.waitCount.variableLabels = o.Labels

\* C15: of two Collect passes that overlap, with no MustRegisterDB call
\* running at any time of either, the one that ends first returns, having
\* called db.Stats() once for every registered pool and sent to its own ch
\* the 8 samples of every registered pool, from its own snapshot and with the
\* pool's registered label values.
C15_ConcurrentPassesTolerated ==
    [][\A p, q \in Procs :
          (/\ p # q
           /\ op[p] = "Collect" /\ op[q] = "Collect"
           /\ stable[p] /\ stable[q]
           /\ pc[p] # "idle" /\ pc[q] # "idle"
           /\ pc'[p] = "idle")
          => /\ result'[p] = "ok"
             /\ DOMAIN snaps'[p] = startKeys[p]
             /\ \A d \in startKeys[p] :
                   /\ Len(snaps'[p][d]) = 1
                   /\ EightFrom(ch'[p], d, snaps'[p][d][1])
                   /\ \A i \in Sends :
                         SamplesOf(ch'[p], d)[i].labelValues = registered[d]]_vars

\* Some caller has recovered from the duplicate-registration panic.
RecoveredFromDuplicate ==
    \E q \in Procs :
        pc[q] = "idle" /\ op[q] = "MustRegisterDB" /\ result[q] = "panic: duplicate register"

\* C16: MustRegisterDB releases the write lock on every way out, the panic
\* included: the lock is held only while a call is inside its write section,
\* and a call waiting for it can take it when no call is inside.  And a
\* Collect pass called after a caller recovered from the panic (no
\* MustRegisterDB call runs during the pass) can take its read lock and returns.
C16_PanicLeavesCollectorUsable ==
    /\ [](l.writer <=> \E q \in Procs : InWriteSection(q))
    /\ [](\A p \in Procs :
             (op[p] = "Collect" /\ stable[p] /\ pc[p] = "RLock" /\ RecoveredFromDuplicate)
             => CanRLock(cl[p]))
    /\ [][\A p \in Procs :
            (/\ op[p] = "Collect" /\ stable[p] /\ pc[p] # "idle"
             /\ RecoveredFromDuplicate
             /\ pc'[p] = "idle")
            => result'[p] = "ok"]_vars

\* C17: the registry only grows, and only in MustRegisterDB: no step of a
\* pass changes it, no step removes a key or changes the entry of a
\* registered handle, and a MustRegisterDB call that returns has added its
\* handle with its label values; and a Collect pass that ended has sent
\* samples for every pool whose registration had returned when the pass was
\* called.
C17_RegistryOnlyGrows ==
    /\ [][/\ DOMAIN dbs \subseteq DOMAIN dbs'
          /\ \A d \in DOMAIN registered : dbs'[d] = dbs[d] /\ registered'[d] = dbs[d]
          /\ dbs' # dbs =>
                \E p \in Procs :
                    /\ op[p] = "MustRegisterDB" /\ pc[p] # pc'[p]
                    /\ \A d \in DOMAIN dbs : d # db[p] => dbs'[d] = dbs[d]
                    /\ DOMAIN dbs' = DOMAIN dbs \cup {db[p]}
          /\ \A p \in Procs :
                (pc[p] = "Unlock" /\ pc'[p] = "idle") =>
                    /\ result'[p] = "ok"
                    /\ db[p] \notin DOMAIN registered
                    /\ dbs'[db[p]] = labelValues[p]
                    /\ registered' = (db[p] :> labelValues[p]) @@ registered]_vars
    /\ [](\A p \in Procs :
             (op[p] = "Collect" /\ result[p] # None) =>
                 startKeys[p] \subseteq PoolsOf(ch[p]))

\* The multi-pool collector holds exactly the pool bound to the single-pool
\* collector, registered with the single-pool collector's label values.
SameBinding == registered = (single.db :> single.o.LabelValues) /\ dbs = registered

\* C18: a Collect pass of the single-pool collector and a Collect pass of the
\* multi-pool collector in which exactly the same pool is registered with the
\* same label values, built from the same Prefix and Labels and given the same
\* statistics snapshot, end the same way and have sent the same samples in
\* the same order: descriptor, value type, value and label values; when the
\* passes return, these are the 8 samples of the pool.  No step changes the
\* binding of the single-pool collector or the configuration of either.
C18_SingleIsRegistryOfOne ==
    /\ []((/\ SameBinding
           /\ op[FirstProc] = "Collect" /\ result[FirstProc] # None
           /\ single.result # None
           /\ single.db \in DOMAIN observed[FirstProc]
           /\ observed[FirstProc][single.db] = single.snap) =>
              /\ single.result = result[FirstProc]
              /\ single.ch = ch[FirstProc]
              /\ single.result = "ok" =>
                    /\ Len(single.ch) = 8
                    /\ \A i \in 1..8 :
                          /\ single.ch[i].desc.fqName = single.o.Prefix \o SuffixTable[i]
                          /\ single.ch[i].desc.variableLabels = single.o.Labels
                          /\ single.ch[i].desc = ch[FirstProc][i].desc
                          /\ single.ch[i].valueType = ch[FirstProc][i].valueType
                          /\ single.ch[i].value = ch[FirstProc][i].value
                          /\ single.ch[i].labelValues = ch[FirstProc][i].labelValues)
    /\ [][/\ single'.o = single.o /\ single'.db = single.db /\ single'.m = single.m
          /\ o' = o /\ m' = m]_vars

\* Both collectors have returned from a Collect pass over the pool, closed and
\* labelled service="orders", each with the 8 samples, the wait duration 2.1 s.
C18_Witness ==
    /\ SameBinding
    /\ op[FirstProc] = "Collect" /\ result[FirstProc] = "ok"
    /\ single.result = "ok"
    /\ single.snap = StatsClosed
    /\ observed[FirstProc] = (single.db :> StatsClosed)
    /\ Len(single.ch) = 8 /\ Len(ch[FirstProc]) = 8
    /\ single.ch[6].value = [units |-> 2, nanos |-> 100000000]
    /\ single.ch[6].labelValues = <<"orders">>
    /\ single.ch[6].desc.variableLabels = <<"service">>

====
